---- MODULE Spec2Model ----
(***************************************************************************)
(* Reactive state layer of the portfolio frontend: the ApiClient, the      *)
(* Projects / Skills / Profile stores and the REST server they talk to.    *)
(*                                                                         *)
(* JavaScript runs the stores on one thread: an async action runs from its *)
(* call to its `await`, and its continuation runs as one step when the     *)
(* promise settles.  Every async action is therefore two actions here, the *)
(* call ("...Call") and the continuation ("...Settle"); the server handles *)
(* a request in a step of its own in between.                              *)
(***************************************************************************)
EXTENDS Integers, Sequences, FiniteSets, TLC

\* ------------------------------------------------------------------ bounds
MaxCalls == 2      \* store calls issued in one behaviour

\* Calls of toast store actions in a behaviour of the toast queue alone.
MaxToastCalls == 3

\* Skills in the collection in a behaviour of skillsByCategory alone.
MaxSkills == 3

\* Messages the contact form sends in one behaviour of the form alone.
MaxSubmits == 1

\* Skill levels a badge is given range from -MaxBadgeLevel to MaxBadgeLevel.
MaxBadgeLevel == 8

\* Calls made to the error logger in one behaviour of the logger alone.
MaxLogCalls == 4

\* ----------------------------------------------------- program constants
maxLogs == 100

\* ------------------------------------------------------- optional values
\* `T | null` and `field?: T` are sequences of length at most one.
None == << >>
Some(x) == << x >>

\* ------------------------------------------------------------- strings
\* Error codes are compared, never inspected: TLA+ strings.
Stores == {"projects", "skills", "profile", "contact"}

\* Error objects a server (or the ApiClient) can put in a result.
ServerErrors ==
    { [code |-> "SERVER_ERROR",  message |-> "Internal server error"],
      [code |-> "NETWORK_ERROR", message |-> "Failed to connect to server"] }

\* What Math.random().toString(36).substr(2, 9) can yield.
ToastIds == {"k3x", "q7m"}

\* ------------------------------------------------------------- entities
\* A row of a table: its AUTOINCREMENT id and a revision PUT bumps.
Row(i, r) == [id |-> i, rev |-> r]

\* The ids a caller passes to update / delete: those of the rows the store
\* shows, which are the ones the user interface offers.
IdsOf(rows) == { rows[k].id : k \in 1..Len(rows) }

\* --------------------------------------------------------------- state
VARIABLES
    focus,            \* the store this behaviour drives
    projects,         \* writable<Project[]>
    projectsLoading,  \* writable<LoadingState>
    skills,           \* writable<Skill[]>
    skillsLoading,    \* writable<LoadingState>
    profile,          \* writable<Profile | null>
    profileLoading,   \* writable<LoadingState>
    contactLoading,   \* writable<LoadingState>
    contactSuccess,   \* writable<boolean>
    toasts,           \* writable<Toast[]>
    timers,           \* armed auto-dismiss timers, per toast id
    logs,             \* ErrorLogger.logs
    serverRows,       \* the server's table behind the driven store
    nextId,           \* the table's AUTOINCREMENT counter
    pending,          \* requests in flight
    nCalls,           \* calls issued so far
    last,             \* the store event that happened last
    fetched,          \* an ApiClient call and what fetch does for it
    returned,         \* what that ApiClient call gave its caller
    locale,           \* the runtime's default locale
    formData,         \* ContactForm: the values of the four fields
    errors,           \* ContactForm: the error message shown per field
    touched,          \* ContactForm: the fields the user has left
    queried,          \* a getProjects call and the endpoint it asked for
    badge,            \* SkillBadge: the level passed in and the label shown
    logged            \* entries added to the logger since its last clear

\* State of the components and utilities beside the stores.
componentVars == << formData, errors, touched, queried, badge, logged >>

vars == << focus, projects, projectsLoading, skills, skillsLoading, profile,
           profileLoading, contactLoading, contactSuccess, toasts, timers, logs, serverRows, nextId, pending,
           nCalls, last, fetched, returned, locale, componentVars >>

storeVars == << projects, projectsLoading, skills, skillsLoading, profile,
                profileLoading, contactLoading, contactSuccess >>

\* The table as the server starts with it.
FirstRows == << Row(1, 0) >>

IdleState == [isLoading |-> FALSE, error |-> None]

\* ContactForm.svelte: the fields of a ContactMessage, and the form as the
\* component creates it.
Fields == {"name", "email", "subject", "message"}

BlankForm == [field \in Fields |-> << >>]

\* The components and the logger before anything was done with them.
ComponentsIdle ==
    /\ formData = BlankForm
    /\ errors = [field \in Fields |-> None]
    /\ touched = {}
    /\ queried = None
    /\ badge = None
    /\ logged = << >>

\* `last` is the store event that happened last (a call, a continuation or a
\* clearError) with the response a continuation got; `applied` is the call
\* number of the load whose data had been applied last before that event.
NoEvent ==
    [ev |-> "none", op |-> "none", seq |-> 0, response |-> None, applied |-> 0,
     result |-> None]

Init ==
    /\ focus \in Stores
    /\ projects \in { << >> } \cup (IF focus = "projects" THEN { FirstRows } ELSE {})
    /\ projectsLoading = IdleState
    /\ skills \in { << >> } \cup (IF focus = "skills" THEN { FirstRows } ELSE {})
    /\ skillsLoading = IdleState
    /\ profile \in { None } \cup (IF focus = "profile" THEN { Some(FirstRows[1]) } ELSE {})
    /\ profileLoading = IdleState
    /\ contactLoading = IdleState
    /\ contactSuccess = FALSE
    /\ toasts = << >>
    /\ timers = [id \in ToastIds |-> 0]
    /\ logs = << >>
    /\ serverRows = FirstRows
    /\ nextId = 2
    /\ pending = {}
    /\ nCalls = 0
    /\ last = NoEvent
    /\ fetched = None
    /\ returned = None
    /\ locale = "en"
    /\ ComponentsIdle

\* ------------------------------------------------------- string contents
\* The characters of the messages the error logger inspects.
Chars(message) ==
    CASE message = "Internal server error" ->
           << "I", "n", "t", "e", "r", "n", "a", "l", " ", "s", "e", "r", "v", "e", "r", " ", "e", "r", "r", "o", "r" >>
      [] message = "Failed to connect to server" ->
           << "F", "a", "i", "l", "e", "d", " ", "t", "o", " ", "c", "o", "n", "n", "e", "c", "t", " ", "t", "o", " ", "s", "e", "r", "v", "e", "r" >>
      [] message = "Network error" ->
           << "N", "e", "t", "w", "o", "r", "k", " ", "e", "r", "r", "o", "r" >>
      [] message = "undefined" ->
           << "u", "n", "d", "e", "f", "i", "n", "e", "d" >>

\* String.prototype.toLowerCase, on the letters that occur.
LowerOf(c) ==
    CASE c = "F" -> "f" [] c = "I" -> "i" [] c = "N" -> "n" [] c = "S" -> "s"
      [] OTHER -> c

toLowerCase(str) == [k \in 1..Len(str) |-> LowerOf(str[k])]

\* String.prototype.includes
includes(str, pattern) ==
    \E k \in 0..(Len(str) - Len(pattern)) :
        \A j \in 1..Len(pattern) : str[k + j] = pattern[j]

\* ------------------------------------------------------- error logger
ignoredPatterns ==
    << << "F", "a", "i", "l", "e", "d", " ", "t", "o", " ", "i", "n", "i", "t", "i", "a", "l", "i", "z", "e", " ", "m", "e", "s", "s", "a", "g", "i", "n", "g" >>,
       << "t", "x", "_", "a", "t", "t", "e", "m", "p", "t", "s", "_", "e", "x", "c", "e", "e", "d", "e", "d" >>,
       << "t", "x", "_", "a", "c", "k", "_", "t", "i", "m", "e", "o", "u", "t" >>,
       << "h", "o", "s", "t", "-", "a", "d", "d", "i", "t", "i", "o", "n", "a", "l", "-", "h", "o", "o", "k", "s" >>,
       << "g", "e", "t", "S", "i", "n", "g", "l", "e", "t", "o", "n" >>,
       << "c", "o", "n", "n", "e", "c", "t" >>,
       << "k", "i", "r", "o", "-", "i", "d", "e" >>,
       << "c", "h", "r", "o", "m", "e", "-", "e", "x", "t", "e", "n", "s", "i", "o", "n" >> >>

Matches(errorMessage) ==
    \E p \in 1..Len(ignoredPatterns) :
        includes(toLowerCase(Chars(errorMessage)), toLowerCase(ignoredPatterns[p]))

\* The messages a store hands to the logger, and those among them it ignores.
LoggedMessages ==
    { "Internal server error", "Failed to connect to server", "Network error",
      "undefined" }

IgnoredMessages == { m \in LoggedMessages : Matches(m) }

\* errorMessage is error?.message || String(error)
shouldIgnoreError(errorMessage) == errorMessage \in IgnoredMessages

LoggedError(lvl, msg) == [level |-> lvl, message |-> msg]

\* ErrorLogger.logError: the log after logging an error with this message.
logError(log, errorMessage) ==
    IF shouldIgnoreError(errorMessage)
    THEN log
    ELSE LET pushed == Append(log, LoggedError("error", errorMessage))
         IN  IF Len(pushed) > maxLogs
             THEN SubSeq(pushed, Len(pushed) - maxLogs + 1, Len(pushed))
             ELSE pushed

\* logApiError(error, endpoint), error being an optional error object
logApiError(log, error) ==
    logError(log, IF error # None THEN error[1].message ELSE "undefined")

\* ---------------------------------------------------------- toast store
ToastOptions(ty, ti, msg, dur) ==
    [type |-> ty, title |-> ti, message |-> msg, duration |-> dur, dismissible |-> None]

\* toastStore.add: the toast made of the options under a fresh random id
Toast(options, id) ==
    [id |-> id,
     type |-> IF options.type # None THEN options.type[1] ELSE "info",
     title |-> options.title,
     message |-> options.message,
     duration |-> IF options.duration # None /\ options.duration[1] # 0
                  THEN options.duration[1] ELSE 5000,
     dismissible |-> (options.dismissible # Some(FALSE))]

toastStore_add(options, id) ==
    /\ toasts' = Append(toasts, Toast(options, id))
    /\ timers' = IF Toast(options, id).duration > 0
                 THEN [timers EXCEPT ![id] = @ + 1]
                 ELSE timers

\* `duration || 8000`
OrElse(duration, fallback) ==
    IF duration # None /\ duration[1] # 0 THEN duration ELSE Some(fallback)

\* The convenience methods success, error, warning and info, called with
\* (title, message?, duration?).
toastStore_wrapper(type, title, message, duration, id) ==
    toastStore_add(ToastOptions(Some(type), title, message,
                                IF type = "error" THEN OrElse(duration, 8000) ELSE duration),
                   id)

\* toastStore.success(title, message) and toastStore.error(title, message)
toastStore_success(title, message, id) ==
    toastStore_wrapper("success", title, Some(message), None, id)

toastStore_error(title, message, id) ==
    toastStore_wrapper("error", title, Some(message), None, id)

\* toastStore.dismiss
toastStore_dismiss(id) == toasts' = SelectSeq(toasts, LAMBDA toast : toast.id # id)

\* toastStore.clear
toastStore_clear == toasts' = << >>

\* ------------------------------------------------------------ requests
\* A request in flight: the call that made it, and what the server answered
\* once it has handled it.
Request(n, o, a) ==
    [seq |-> n, op |-> o, arg |-> a, served |-> FALSE, data |-> None]

\* What `await apiClient.<op>(...)` can yield for request r: the promise
\* rejects, or resolves with an ApiResponse { success, data?, error? }.
Resolved(s, d, e) ==
    [rejected |-> FALSE, success |-> s, data |-> d, error |-> e]

Rejected ==
    [rejected |-> TRUE, success |-> FALSE, data |-> None, error |-> None]

\* A served request can be answered with what the server made of it; any
\* request can fail, or come back as a body that lacks `data` or `error`.
Responses(r) ==
    (IF r.served THEN { Resolved(TRUE, r.data, None) } ELSE {})
      \cup (IF r.op \notin { "delete", "send" }
            THEN { Resolved(TRUE, None, None) } ELSE {})
      \cup { Resolved(FALSE, None, None), Rejected }
      \cup { Resolved(FALSE, None, Some(e)) : e \in ServerErrors }

\* `response.success && response.data`
Ok(response) ==
    ~response.rejected /\ response.success /\ response.data # None

\* What the action's promise resolves to: `return true` in the success
\* branch, `return false` in the else branch and in the catch block; the
\* load actions return nothing.
ReturnValue(o, response) ==
    CASE o \in { "create", "update" } -> Some(Ok(response))
      [] o \in { "delete", "send" } -> Some(~response.rejected /\ response.success)
      [] OTHER -> None

Event(e, o, n, resp) ==
    [ev |-> e, op |-> o, seq |-> n, response |-> resp,
     applied |-> IF last.ev = "settle" /\ last.op = "load" /\ Ok(last.response[1])
                 THEN last.seq ELSE last.applied,
     result |-> IF e = "settle" THEN ReturnValue(o, resp[1]) ELSE None]

Issue(o, a) ==
    /\ nCalls < MaxCalls
    /\ nCalls' = nCalls + 1
    /\ pending' = pending \cup { Request(nCalls + 1, o, a) }
    /\ last' = Event("call", o, nCalls + 1, None)
    /\ UNCHANGED << focus, serverRows, nextId, fetched, returned, locale, componentVars >>

Finish(r, response) ==
    /\ pending' = pending \ {r}
    /\ last' = Event("settle", r.op, r.seq, Some(response))
    /\ UNCHANGED << focus, serverRows, nextId, nCalls, fetched, returned, locale, componentVars >>

\* -------------------------------------------------------------- server
\* The REST handlers over one table: GET lists the rows, POST inserts a row
\* under the next AUTOINCREMENT id, PUT rewrites the row with the given id,
\* DELETE removes it.  A request for a row that is not there is never served:
\* it can only fail.
HasRow(rows, i) == \E k \in 1..Len(rows) : rows[k].id = i

Rewritten(row) == Row(row.id, row.rev + 1)

PutRow(rows, i) ==
    [k \in 1..Len(rows) |-> IF rows[k].id = i THEN Rewritten(rows[k]) ELSE rows[k]]

DeleteRow(rows, i) == SelectSeq(rows, LAMBDA row : row.id # i)

RowOf(rows, i) == rows[CHOOSE k \in 1..Len(rows) : rows[k].id = i]

ServedAs(r, d) == (pending \ {r}) \cup { [r EXCEPT !.served = TRUE, !.data = d] }

\* Another client of the same server rewrites a row of the table, once.
OtherClient ==
    \E i \in IdsOf(serverRows) :
        /\ serverRows = FirstRows
        /\ serverRows' = PutRow(serverRows, i)
        /\ UNCHANGED << focus, storeVars, toasts, timers, logs, nextId, pending,
                        nCalls, last, fetched, returned, locale, componentVars >>

Serve ==
    \E r \in pending :
        /\ ~r.served
        /\ \/ /\ r.op = "load"
              /\ pending' = ServedAs(r, Some(IF focus = "profile"
                                              THEN serverRows[1] ELSE serverRows))
              /\ UNCHANGED << serverRows, nextId >>
           \/ /\ r.op = "create"
              /\ serverRows' = Append(serverRows, Row(nextId, 0))
              /\ nextId' = nextId + 1
              /\ pending' = ServedAs(r, Some(Row(nextId, 0)))
           \/ /\ r.op = "update"
              /\ HasRow(serverRows, r.arg)
              /\ serverRows' = PutRow(serverRows, r.arg)
              /\ pending' = ServedAs(r, Some(Rewritten(RowOf(serverRows, r.arg))))
              /\ UNCHANGED nextId
           \/ /\ r.op = "delete"
              /\ HasRow(serverRows, r.arg)
              /\ serverRows' = DeleteRow(serverRows, r.arg)
              /\ pending' = ServedAs(r, None)
              /\ UNCHANGED nextId
           \/ /\ r.op = "send"
              /\ pending' = ServedAs(r, None)
              /\ UNCHANGED << serverRows, nextId >>
        /\ UNCHANGED << focus, storeVars, toasts, timers, logs, nCalls, last,
                        fetched, returned, locale, componentVars >>

\* ------------------------------------------------------- projects store
\* A failure message is `response.error?.message || <fallback>`.
MessageOr(response, fallback) ==
    IF response.error # None THEN response.error[1].message ELSE fallback

othersThanProjects ==
    << skills, skillsLoading, profile, profileLoading, contactLoading, contactSuccess >>

loadProjectsCall ==
    /\ focus = "projects"
    /\ projectsLoading' = [projectsLoading EXCEPT !.isLoading = TRUE, !.error = None]
    /\ Issue("load", 0)
    /\ UNCHANGED << projects, othersThanProjects, toasts, timers, logs >>

\* Variant of loadProjectsThen that resets the list when the load fails.
loadProjectsThenReset(response, id) ==
    IF response.rejected
    THEN /\ logs' = logApiError(logs, Some([code |-> "Error", message |-> "Network error"]))
         /\ projectsLoading' =
               [projectsLoading EXCEPT !.isLoading = FALSE,
                  !.error = Some([code |-> "NETWORK_ERROR",
                                  message |-> "Impossible de se connecter au serveur"])]
         /\ toastStore_error("Erreur réseau", "Impossible de se connecter au serveur", id)
         /\ projects' = << >>
    ELSE IF Ok(response)
    THEN /\ projects' = response.data[1]
         /\ projectsLoading' = [projectsLoading EXCEPT !.isLoading = FALSE]
         /\ UNCHANGED << toasts, timers, logs >>
    ELSE /\ logs' = logApiError(logs, response.error)
         /\ projectsLoading' =
               [projectsLoading EXCEPT !.isLoading = FALSE,
                  !.error = IF response.error # None
                            THEN response.error
                            ELSE Some([code |-> "UNKNOWN_ERROR",
                                       message |-> "Erreur lors du chargement des projets"])]
         /\ toastStore_error("Erreur de chargement",
                             MessageOr(response, "Erreur lors du chargement des projets"), id)
         /\ projects' = << >>

\* The continuation of loadProjects after `await apiClient.getProjects(...)`
loadProjectsThen(response, id) ==
    IF response.rejected
    THEN /\ logs' = logApiError(logs, Some([code |-> "Error", message |-> "Network error"]))
         /\ projectsLoading' =
               [projectsLoading EXCEPT !.isLoading = FALSE,
                  !.error = Some([code |-> "NETWORK_ERROR",
                                  message |-> "Impossible de se connecter au serveur"])]
         /\ toastStore_error("Erreur réseau", "Impossible de se connecter au serveur", id)
         /\ UNCHANGED projects
    ELSE IF Ok(response)
    THEN /\ projects' = response.data[1]
         /\ projectsLoading' = [projectsLoading EXCEPT !.isLoading = FALSE]
         /\ UNCHANGED << toasts, timers, logs >>
    ELSE /\ logs' = logApiError(logs, response.error)
         /\ projectsLoading' =
               [projectsLoading EXCEPT !.isLoading = FALSE,
                  !.error = IF response.error # None
                            THEN response.error
                            ELSE Some([code |-> "UNKNOWN_ERROR",
                                       message |-> "Erreur lors du chargement des projets"])]
         /\ toastStore_error("Erreur de chargement",
                             MessageOr(response, "Erreur lors du chargement des projets"), id)
         /\ UNCHANGED projects

loadProjectsSettle ==
    \E r \in pending : \E response \in Responses(r) : \E id \in ToastIds :
        /\ focus = "projects"
        /\ r.op = "load"
        /\ loadProjectsThen(response, id)
        /\ Finish(r, response)
        /\ UNCHANGED othersThanProjects

\* Variant of createProject that raises isLoading the way loadProjects does.
createProjectCallLoading ==
    /\ focus = "projects"
    /\ projectsLoading' = [projectsLoading EXCEPT !.isLoading = TRUE]
    /\ Issue("create", 0)
    /\ UNCHANGED << projects, othersThanProjects, toasts, timers, logs >>

createProjectCall ==
    /\ focus = "projects"
    /\ Issue("create", 0)
    /\ UNCHANGED << storeVars, toasts, timers, logs >>

\* Variant of createProjectThen whose catch block raises no toast.
createProjectThenSilent(response, id) ==
    IF response.rejected
    THEN UNCHANGED << projects, toasts, timers >>
    ELSE IF Ok(response)
    THEN /\ projects' = Append(projects, response.data[1])
         /\ toastStore_success("Projet créé", "Le projet a été créé avec succès", id)
    ELSE /\ toastStore_error("Erreur de création",
                             MessageOr(response, "Erreur lors de la création du projet"), id)
         /\ UNCHANGED projects

createProjectThen(response, id) ==
    IF response.rejected
    THEN /\ toastStore_error("Erreur réseau", "Impossible de créer le projet", id)
         /\ UNCHANGED projects
    ELSE IF Ok(response)
    THEN /\ projects' = Append(projects, response.data[1])
         /\ toastStore_success("Projet créé", "Le projet a été créé avec succès", id)
    ELSE /\ toastStore_error("Erreur de création",
                             MessageOr(response, "Erreur lors de la création du projet"), id)
         /\ UNCHANGED projects

createProjectSettle ==
    \E r \in pending : \E response \in Responses(r) : \E id \in ToastIds :
        /\ focus = "projects"
        /\ r.op = "create"
        /\ createProjectThen(response, id)
        /\ Finish(r, response)
        /\ UNCHANGED << projectsLoading, othersThanProjects, logs >>

updateProjectCall ==
    \E id \in IdsOf(projects) :
        /\ focus = "projects"
        /\ Issue("update", id)
        /\ UNCHANGED << storeVars, toasts, timers, logs >>

updateProjectThen(id, response, tid) ==
    IF response.rejected
    THEN /\ toastStore_error("Erreur réseau", "Impossible de mettre à jour le projet", tid)
         /\ UNCHANGED projects
    ELSE IF Ok(response)
    THEN /\ projects' = [k \in 1..Len(projects) |->
                           IF projects[k].id = id THEN response.data[1] ELSE projects[k]]
         /\ toastStore_success("Projet mis à jour",
                               "Le projet a été mis à jour avec succès", tid)
    ELSE /\ toastStore_error("Erreur de mise à jour",
                             MessageOr(response, "Erreur lors de la mise à jour du projet"), tid)
         /\ UNCHANGED projects

updateProjectSettle ==
    \E r \in pending : \E response \in Responses(r) : \E tid \in ToastIds :
        /\ focus = "projects"
        /\ r.op = "update"
        /\ updateProjectThen(r.arg, response, tid)
        /\ Finish(r, response)
        /\ UNCHANGED << projectsLoading, othersThanProjects, logs >>

deleteProjectCall ==
    \E id \in IdsOf(projects) :
        /\ focus = "projects"
        /\ Issue("delete", id)
        /\ UNCHANGED << storeVars, toasts, timers, logs >>

\* Variant of deleteProjectThen that removes the project whatever the response.
deleteProjectThenOptimistic(id, response, tid) ==
    IF response.rejected
    THEN /\ toastStore_error("Erreur réseau", "Impossible de supprimer le projet", tid)
         /\ projects' = SelectSeq(projects, LAMBDA project : project.id # id)
    ELSE IF response.success
    THEN /\ projects' = SelectSeq(projects, LAMBDA project : project.id # id)
         /\ toastStore_success("Projet supprimé", "Le projet a été supprimé avec succès", tid)
    ELSE /\ toastStore_error("Erreur de suppression",
                             MessageOr(response, "Erreur lors de la suppression du projet"), tid)
         /\ projects' = SelectSeq(projects, LAMBDA project : project.id # id)

deleteProjectThen(id, response, tid) ==
    IF response.rejected
    THEN /\ toastStore_error("Erreur réseau", "Impossible de supprimer le projet", tid)
         /\ UNCHANGED projects
    ELSE IF response.success
    THEN /\ projects' = SelectSeq(projects, LAMBDA project : project.id # id)
         /\ toastStore_success("Projet supprimé",
                               "Le projet a été supprimé avec succès", tid)
    ELSE /\ toastStore_error("Erreur de suppression",
                             MessageOr(response, "Erreur lors de la suppression du projet"), tid)
         /\ UNCHANGED projects

deleteProjectSettle ==
    \E r \in pending : \E response \in Responses(r) : \E tid \in ToastIds :
        /\ focus = "projects"
        /\ r.op = "delete"
        /\ deleteProjectThen(r.arg, response, tid)
        /\ Finish(r, response)
        /\ UNCHANGED << projectsLoading, othersThanProjects, logs >>

\* Variant of clearError that puts the whole LoadingState back to idle.
projectsClearErrorIdle ==
    /\ focus = "projects"
    /\ nCalls < MaxCalls
    /\ nCalls' = nCalls + 1
    /\ projectsLoading' = IdleState
    /\ last' = Event("clearError", "clearError", nCalls + 1, None)
    /\ UNCHANGED << focus, projects, othersThanProjects, toasts, timers, logs,
                    serverRows, nextId, pending, fetched, returned, locale, componentVars >>

projectsClearError ==
    /\ focus = "projects"
    /\ nCalls < MaxCalls
    /\ nCalls' = nCalls + 1
    /\ projectsLoading' = [projectsLoading EXCEPT !.error = None]
    /\ last' = Event("clearError", "clearError", nCalls + 1, None)
    /\ UNCHANGED << focus, projects, othersThanProjects, toasts, timers, logs,
                    serverRows, nextId, pending, fetched, returned, locale, componentVars >>

\* --------------------------------------------------------- skills store
othersThanSkills ==
    << projects, projectsLoading, profile, profileLoading, contactLoading, contactSuccess >>

loadSkillsCall ==
    /\ focus = "skills"
    /\ skillsLoading' = [skillsLoading EXCEPT !.isLoading = TRUE, !.error = None]
    /\ Issue("load", 0)
    /\ UNCHANGED << skills, othersThanSkills, toasts, timers, logs >>

\* Variant of loadSkillsThen that merges the loaded rows into the list.
loadSkillsThenMerge(response) ==
    IF response.rejected
    THEN /\ skillsLoading' =
               [skillsLoading EXCEPT !.isLoading = FALSE,
                  !.error = Some([code |-> "NETWORK_ERROR",
                                  message |-> "Failed to load skills"])]
         /\ UNCHANGED skills
    ELSE IF Ok(response)
    THEN /\ skills' = skills \o SelectSeq(response.data[1],
                                          LAMBDA row : row \notin { skills[k] : k \in 1..Len(skills) })
         /\ skillsLoading' = [skillsLoading EXCEPT !.isLoading = FALSE]
    ELSE /\ skillsLoading' =
               [skillsLoading EXCEPT !.isLoading = FALSE,
                  !.error = IF response.error # None
                            THEN response.error
                            ELSE Some([code |-> "UNKNOWN_ERROR",
                                       message |-> "Unknown error occurred"])]
         /\ UNCHANGED skills

\* The continuation of loadSkills after `await apiClient.getSkills(...)`
loadSkillsThen(response) ==
    IF response.rejected
    THEN /\ skillsLoading' =
               [skillsLoading EXCEPT !.isLoading = FALSE,
                  !.error = Some([code |-> "NETWORK_ERROR",
                                  message |-> "Failed to load skills"])]
         /\ UNCHANGED skills
    ELSE IF Ok(response)
    THEN /\ skills' = response.data[1]
         /\ skillsLoading' = [skillsLoading EXCEPT !.isLoading = FALSE]
    ELSE /\ skillsLoading' =
               [skillsLoading EXCEPT !.isLoading = FALSE,
                  !.error = IF response.error # None
                            THEN response.error
                            ELSE Some([code |-> "UNKNOWN_ERROR",
                                       message |-> "Unknown error occurred"])]
         /\ UNCHANGED skills

\* Variant of loadSkillsSettle that drops the response of a load when a load
\* issued after it has already been applied.
loadSkillsSettleLatestOnly ==
    \E r \in pending : \E response \in Responses(r) :
        /\ focus = "skills"
        /\ r.op = "load"
        /\ IF Ok(response) /\ r.seq < Event("settle", r.op, r.seq, Some(response)).applied
           THEN /\ skillsLoading' = [skillsLoading EXCEPT !.isLoading = FALSE]
                /\ UNCHANGED skills
           ELSE loadSkillsThen(response)
        /\ Finish(r, response)
        /\ UNCHANGED << othersThanSkills, toasts, timers, logs >>

loadSkillsSettle ==
    \E r \in pending : \E response \in Responses(r) :
        /\ focus = "skills"
        /\ r.op = "load"
        /\ loadSkillsThen(response)
        /\ Finish(r, response)
        /\ UNCHANGED << othersThanSkills, toasts, timers, logs >>

createSkillCall ==
    /\ focus = "skills"
    /\ Issue("create", 0)
    /\ UNCHANGED << storeVars, toasts, timers, logs >>

createSkillThen(response) ==
    IF Ok(response)
    THEN skills' = Append(skills, response.data[1])
    ELSE UNCHANGED skills

createSkillSettle ==
    \E r \in pending : \E response \in Responses(r) :
        /\ focus = "skills"
        /\ r.op = "create"
        /\ createSkillThen(response)
        /\ Finish(r, response)
        /\ UNCHANGED << skillsLoading, othersThanSkills, toasts, timers, logs >>

updateSkillCall ==
    \E id \in IdsOf(skills) :
        /\ focus = "skills"
        /\ Issue("update", id)
        /\ UNCHANGED << storeVars, toasts, timers, logs >>

\* Variant of updateSkillThen that adds the returned skill when none has the id.
updateSkillThenUpsert(id, response) ==
    IF Ok(response)
    THEN skills' = IF id \in IdsOf(skills)
                   THEN [k \in 1..Len(skills) |->
                           IF skills[k].id = id THEN response.data[1] ELSE skills[k]]
                   ELSE Append(skills, response.data[1])
    ELSE UNCHANGED skills

updateSkillThen(id, response) ==
    IF Ok(response)
    THEN skills' = [k \in 1..Len(skills) |->
                      IF skills[k].id = id THEN response.data[1] ELSE skills[k]]
    ELSE UNCHANGED skills

updateSkillSettle ==
    \E r \in pending : \E response \in Responses(r) :
        /\ focus = "skills"
        /\ r.op = "update"
        /\ updateSkillThen(r.arg, response)
        /\ Finish(r, response)
        /\ UNCHANGED << skillsLoading, othersThanSkills, toasts, timers, logs >>

deleteSkillCall ==
    \E id \in IdsOf(skills) :
        /\ focus = "skills"
        /\ Issue("delete", id)
        /\ UNCHANGED << storeVars, toasts, timers, logs >>

deleteSkillThen(id, response) ==
    IF ~response.rejected /\ response.success
    THEN skills' = SelectSeq(skills, LAMBDA skill : skill.id # id)
    ELSE UNCHANGED skills

deleteSkillSettle ==
    \E r \in pending : \E response \in Responses(r) :
        /\ focus = "skills"
        /\ r.op = "delete"
        /\ deleteSkillThen(r.arg, response)
        /\ Finish(r, response)
        /\ UNCHANGED << skillsLoading, othersThanSkills, toasts, timers, logs >>

skillsClearError ==
    /\ focus = "skills"
    /\ nCalls < MaxCalls
    /\ nCalls' = nCalls + 1
    /\ skillsLoading' = [skillsLoading EXCEPT !.error = None]
    /\ last' = Event("clearError", "clearError", nCalls + 1, None)
    /\ UNCHANGED << focus, skills, othersThanSkills, toasts, timers, logs,
                    serverRows, nextId, pending, fetched, returned, locale, componentVars >>

\* -------------------------------------------------------- profile store
othersThanProfile ==
    << projects, projectsLoading, skills, skillsLoading, contactLoading, contactSuccess >>

loadProfileCall ==
    /\ focus = "profile"
    /\ profileLoading' = [profileLoading EXCEPT !.isLoading = TRUE, !.error = None]
    /\ Issue("load", 0)
    /\ UNCHANGED << profile, othersThanProfile, toasts, timers, logs >>

\* Variant of loadProfileThen that reports every failed response as unknown.
loadProfileThenUnknown(response) ==
    IF response.rejected
    THEN /\ profileLoading' =
               [profileLoading EXCEPT !.isLoading = FALSE,
                  !.error = Some([code |-> "NETWORK_ERROR",
                                  message |-> "Failed to load profile"])]
         /\ UNCHANGED profile
    ELSE IF Ok(response)
    THEN /\ profile' = response.data
         /\ profileLoading' = [profileLoading EXCEPT !.isLoading = FALSE]
    ELSE /\ profileLoading' =
               [profileLoading EXCEPT !.isLoading = FALSE,
                  !.error = Some([code |-> "UNKNOWN_ERROR",
                                  message |-> "Unknown error occurred"])]
         /\ UNCHANGED profile

\* The continuation of loadProfile after `await apiClient.getProfile()`
loadProfileThen(response) ==
    IF response.rejected
    THEN /\ profileLoading' =
               [profileLoading EXCEPT !.isLoading = FALSE,
                  !.error = Some([code |-> "NETWORK_ERROR",
                                  message |-> "Failed to load profile"])]
         /\ UNCHANGED profile
    ELSE IF Ok(response)
    THEN /\ profile' = response.data
         /\ profileLoading' = [profileLoading EXCEPT !.isLoading = FALSE]
    ELSE /\ profileLoading' =
               [profileLoading EXCEPT !.isLoading = FALSE,
                  !.error = IF response.error # None
                            THEN response.error
                            ELSE Some([code |-> "UNKNOWN_ERROR",
                                       message |-> "Unknown error occurred"])]
         /\ UNCHANGED profile

loadProfileSettle ==
    \E r \in pending : \E response \in Responses(r) :
        /\ focus = "profile"
        /\ r.op = "load"
        /\ loadProfileThen(response)
        /\ Finish(r, response)
        /\ UNCHANGED << othersThanProfile, toasts, timers, logs >>

updateProfileCall ==
    /\ focus = "profile"
    /\ Issue("update", 1)
    /\ UNCHANGED << storeVars, toasts, timers, logs >>

updateProfileThen(response) ==
    IF Ok(response)
    THEN profile' = response.data
    ELSE UNCHANGED profile

updateProfileSettle ==
    \E r \in pending : \E response \in Responses(r) :
        /\ focus = "profile"
        /\ r.op = "update"
        /\ updateProfileThen(response)
        /\ Finish(r, response)
        /\ UNCHANGED << profileLoading, othersThanProfile, toasts, timers, logs >>

profileClearError ==
    /\ focus = "profile"
    /\ nCalls < MaxCalls
    /\ nCalls' = nCalls + 1
    /\ profileLoading' = [profileLoading EXCEPT !.error = None]
    /\ last' = Event("clearError", "clearError", nCalls + 1, None)
    /\ UNCHANGED << focus, profile, othersThanProfile, toasts, timers, logs,
                    serverRows, nextId, pending, fetched, returned, locale, componentVars >>

\* -------------------------------------------------------- contact store
othersThanContact ==
    << projects, projectsLoading, skills, skillsLoading, profile, profileLoading >>

sendMessageCall ==
    /\ focus = "contact"
    /\ contactLoading' = [contactLoading EXCEPT !.isLoading = TRUE, !.error = None]
    /\ contactSuccess' = FALSE
    /\ Issue("send", 0)
    /\ UNCHANGED << othersThanContact, toasts, timers, logs >>

\* The continuation of sendMessage after `await apiClient.sendContactMessage(...)`
sendMessageThen(response, id) ==
    IF response.rejected
    THEN /\ contactLoading' =
               [contactLoading EXCEPT !.isLoading = FALSE,
                  !.error = Some([code |-> "NETWORK_ERROR",
                                  message |-> "Impossible de se connecter au serveur"])]
         /\ toastStore_error("Erreur réseau", "Impossible de se connecter au serveur", id)
         /\ UNCHANGED contactSuccess
    ELSE IF response.success
    THEN /\ contactLoading' = [contactLoading EXCEPT !.isLoading = FALSE]
         /\ contactSuccess' = TRUE
         /\ toastStore_success("Message envoyé",
               "Votre message a été envoyé avec succès. Je vous répondrai bientôt !", id)
    ELSE /\ contactLoading' =
               [contactLoading EXCEPT !.isLoading = FALSE,
                  !.error = IF response.error # None
                            THEN response.error
                            ELSE Some([code |-> "UNKNOWN_ERROR",
                                       message |-> "Erreur lors de l'envoi du message"])]
         /\ toastStore_error("Erreur d'envoi",
                             MessageOr(response, "Erreur lors de l'envoi du message"), id)
         /\ UNCHANGED contactSuccess

sendMessageSettle ==
    \E r \in pending : \E response \in Responses(r) : \E id \in ToastIds :
        /\ focus = "contact"
        /\ r.op = "send"
        /\ sendMessageThen(response, id)
        /\ Finish(r, response)
        /\ UNCHANGED << othersThanContact, logs >>

contactClearError ==
    /\ focus = "contact"
    /\ nCalls < MaxCalls
    /\ nCalls' = nCalls + 1
    /\ contactLoading' = [contactLoading EXCEPT !.error = None]
    /\ last' = Event("clearError", "clearError", nCalls + 1, None)
    /\ UNCHANGED << focus, contactSuccess, othersThanContact, toasts, timers, logs,
                    serverRows, nextId, pending, fetched, returned, locale, componentVars >>

clearSuccess ==
    /\ focus = "contact"
    /\ nCalls < MaxCalls
    /\ nCalls' = nCalls + 1
    /\ contactSuccess' = FALSE
    /\ last' = Event("clearSuccess", "clearSuccess", nCalls + 1, None)
    /\ UNCHANGED << focus, contactLoading, othersThanContact, toasts, timers, logs,
                    serverRows, nextId, pending, fetched, returned, locale, componentVars >>

\* Variant of reset that leaves the success flag alone.
contactResetLoadingOnly ==
    /\ focus = "contact"
    /\ nCalls < MaxCalls
    /\ nCalls' = nCalls + 1
    /\ contactLoading' = IdleState
    /\ last' = Event("reset", "reset", nCalls + 1, None)
    /\ UNCHANGED << focus, contactSuccess, othersThanContact, toasts, timers, logs,
                    serverRows, nextId, pending, fetched, returned, locale, componentVars >>

contactReset ==
    /\ focus = "contact"
    /\ nCalls < MaxCalls
    /\ nCalls' = nCalls + 1
    /\ contactLoading' = IdleState
    /\ contactSuccess' = FALSE
    /\ last' = Event("reset", "reset", nCalls + 1, None)
    /\ UNCHANGED << focus, othersThanContact, toasts, timers, logs,
                    serverRows, nextId, pending, fetched, returned, locale, componentVars >>

Next ==
    \/ Serve
    \/ OtherClient
    \/ loadProjectsCall
    \/ loadProjectsSettle
    \/ createProjectCall
    \/ createProjectSettle
    \/ updateProjectCall
    \/ updateProjectSettle
    \/ deleteProjectCall
    \/ deleteProjectSettle
    \/ projectsClearError
    \/ loadSkillsCall
    \/ loadSkillsSettle
    \/ createSkillCall
    \/ createSkillSettle
    \/ updateSkillCall
    \/ updateSkillSettle
    \/ deleteSkillCall
    \/ deleteSkillSettle
    \/ skillsClearError
    \/ loadProfileCall
    \/ loadProfileSettle
    \/ updateProfileCall
    \/ updateProfileSettle
    \/ profileClearError
    \/ sendMessageCall
    \/ sendMessageSettle
    \/ contactClearError
    \/ clearSuccess
    \/ contactReset

Spec == Init /\ [][Next]_vars


\* ------------------------------------------------- the toast queue alone
\* The toast store driven through its own actions, with the timers that
\* add arms.  `last` is the call made last: its kind, options and id.
ToastTypes == { "success", "error", "warning", "info" }

Durations == { None, Some(0), Some(3000) }

AddOptions ==
    { [type |-> ty, title |-> "Saved", message |-> None, duration |-> dur,
       dismissible |-> dis] :
        ty \in { None, Some("warning") }, dur \in Durations,
        dis \in { None, Some(TRUE), Some(FALSE) } }

ToastEvent(e, opts, i) == [ev |-> e, options |-> opts, id |-> i, seq |-> nCalls + 1]

othersThanToasts ==
    << focus, storeVars, logs, serverRows, nextId, pending, fetched, returned, locale, componentVars >>

InitToast ==
    /\ focus = "toasts"
    /\ projects = << >>
    /\ projectsLoading = IdleState
    /\ skills = << >>
    /\ skillsLoading = IdleState
    /\ profile = None
    /\ profileLoading = IdleState
    /\ contactLoading = IdleState
    /\ contactSuccess = FALSE
    /\ toasts = << >>
    /\ timers = [id \in ToastIds |-> 0]
    /\ logs = << >>
    /\ serverRows = FirstRows
    /\ nextId = 2
    /\ pending = {}
    /\ nCalls = 0
    /\ last = NoEvent
    /\ fetched = None
    /\ returned = None
    /\ locale = "en"
    /\ ComponentsIdle

\* toastStore.add(options); Math.random picks the id.
ToastAdd ==
    \E options \in AddOptions : \E id \in ToastIds :
        /\ nCalls < MaxToastCalls
        /\ nCalls' = nCalls + 1
        /\ toastStore_add(options, id)
        /\ last' = ToastEvent("add", Some(options), id)
        /\ UNCHANGED othersThanToasts

\* toastStore.success / error / warning / info (title, message?, duration?)
ToastWrapper ==
    \E type \in ToastTypes : \E duration \in Durations : \E id \in ToastIds :
        /\ nCalls < MaxToastCalls
        /\ nCalls' = nCalls + 1
        /\ toastStore_wrapper(type, "Saved", None, duration, id)
        /\ last' = ToastEvent(type, Some(ToastOptions(None, "Saved", None, duration)), id)
        /\ UNCHANGED othersThanToasts

\* toastStore.dismiss(id), from the close button or any caller holding an id.
ToastDismiss ==
    \E id \in ToastIds :
        /\ nCalls < MaxToastCalls
        /\ nCalls' = nCalls + 1
        /\ toastStore_dismiss(id)
        /\ last' = ToastEvent("dismiss", None, id)
        /\ UNCHANGED << timers, othersThanToasts >>

ToastClear ==
    /\ nCalls < MaxToastCalls
    /\ nCalls' = nCalls + 1
    /\ toastStore_clear
    /\ last' = ToastEvent("clear", None, "")
    /\ UNCHANGED << timers, othersThanToasts >>

\* A timer armed by add fires: `setTimeout(() => this.dismiss(id), ...)`.
ToastTimer ==
    \E id \in ToastIds :
        /\ timers[id] > 0
        /\ timers' = [timers EXCEPT ![id] = @ - 1]
        /\ toastStore_dismiss(id)
        /\ last' = [ev |-> "timer", options |-> None, id |-> id, seq |-> nCalls]
        /\ UNCHANGED << nCalls, othersThanToasts >>

NextToast ==
    \/ ToastAdd
    \/ ToastWrapper
    \/ ToastDismiss
    \/ ToastClear
    \/ ToastTimer

SpecToast == InitToast /\ [][NextToast]_vars

\* Timers that are armed fire.
SpecToastFair == SpecToast /\ WF_vars(ToastTimer)

\* ------------------------------------------------------ skillsByCategory
\* The derived store over `skills`, with skills as they come from the API:
\* { id, name, category, level }.  A name is spelled as its characters.
Names == { << "B" >>, << "a" >>, << "b" >> }

Categories == { "Backend", "Frontend" }

Levels == { 3, 5 }

Locales == { "en", "da" }

Skill(i, n, c, l) == [id |-> i, name |-> n, category |-> c, level |-> l]

\* The UTF-16 code unit of a character.
CodeUnit(ch) ==
    CASE ch = "A" -> 65 [] ch = "B" -> 66 [] ch = "a" -> 97 [] ch = "b" -> 98

\* Collation, as Intl does it: the letter decides first (primary weight), and
\* between strings of the same letters the case of the first character that
\* differs in case (tertiary weight): lower case first, unless the locale
\* puts upper case first (Danish does).
PrimaryWeight(ch) == IF ch \in { "a", "A" } THEN 1 ELSE 2

IsUpper(ch) == ch \in { "A", "B" }

RECURSIVE ComparePrimary(_, _)
ComparePrimary(x, y) ==
    IF x = << >> /\ y = << >> THEN 0
    ELSE IF x = << >> THEN -1
    ELSE IF y = << >> THEN 1
    ELSE IF PrimaryWeight(Head(x)) < PrimaryWeight(Head(y)) THEN -1
    ELSE IF PrimaryWeight(Head(x)) > PrimaryWeight(Head(y)) THEN 1
    ELSE ComparePrimary(Tail(x), Tail(y))

RECURSIVE CompareCase(_, _)
CompareCase(x, y) ==
    IF x = << >> \/ y = << >> THEN 0
    ELSE IF IsUpper(Head(x)) = IsUpper(Head(y)) THEN CompareCase(Tail(x), Tail(y))
    ELSE IF IsUpper(Head(y)) = (locale # "da") THEN -1
    ELSE 1

\* String.prototype.localeCompare in the default locale
localeCompare(x, y) ==
    IF ComparePrimary(x, y) # 0 THEN ComparePrimary(x, y) ELSE CompareCase(x, y)

\* The order of the strings by their code units (what < and sort() use).
RECURSIVE CompareCodeUnits(_, _)
CompareCodeUnits(x, y) ==
    IF x = << >> /\ y = << >> THEN 0
    ELSE IF x = << >> THEN -1
    ELSE IF y = << >> THEN 1
    ELSE IF CodeUnit(Head(x)) < CodeUnit(Head(y)) THEN -1
    ELSE IF CodeUnit(Head(x)) > CodeUnit(Head(y)) THEN 1
    ELSE CompareCodeUnits(Tail(x), Tail(y))

\* Variant of compareSkills that orders equal levels by the names' code units.
compareSkillsByCodeUnits(a, b) ==
    IF a.level # b.level THEN b.level - a.level
    ELSE CompareCodeUnits(a.name, b.name)

\* The comparator given to sort
compareSkills(a, b) ==
    IF a.level # b.level THEN b.level - a.level
    ELSE localeCompare(a.name, b.name)

\* Array.prototype.sort(compare): a stable sort.
RECURSIVE Inserted(_, _)
Inserted(sorted, x) ==
    IF sorted = << >> THEN << x >>
    ELSE IF compareSkills(x, Head(sorted)) < 0 THEN << x >> \o sorted
    ELSE << Head(sorted) >> \o Inserted(Tail(sorted), x)

RECURSIVE sort(_)
sort(list) ==
    IF list = << >> THEN << >>
    ELSE Inserted(sort(SubSeq(list, 1, Len(list) - 1)), list[Len(list)])

\* export const skillsByCategory = derived(skills, ...)
skillsByCategory ==
    [category \in { skills[k].category : k \in 1..Len(skills) } |->
        sort(SelectSeq(skills, LAMBDA skill : skill.category = category))]

othersThanSkillList ==
    << focus, projects, projectsLoading, skillsLoading, profile, profileLoading,
       contactLoading, contactSuccess, toasts, timers, logs, serverRows, nextId,
       pending, nCalls, last, fetched, returned, locale, componentVars >>

InitSkills ==
    /\ focus = "skills"
    /\ projects = << >>
    /\ projectsLoading = IdleState
    /\ skills = << >>
    /\ skillsLoading = IdleState
    /\ profile = None
    /\ profileLoading = IdleState
    /\ contactLoading = IdleState
    /\ contactSuccess = FALSE
    /\ toasts = << >>
    /\ timers = [id \in ToastIds |-> 0]
    /\ logs = << >>
    /\ serverRows = << >>
    /\ nextId = 1
    /\ pending = {}
    /\ nCalls = 0
    /\ last = NoEvent
    /\ fetched = None
    /\ returned = None
    /\ locale \in Locales
    /\ ComponentsIdle

\* An id no skill of the collection has.
NewId(list) == CHOOSE i \in 1..(Len(list) + 1) : i \notin IdsOf(list)

\* A skill comes into the collection (a load, or a createSkill that succeeded).
SkillAdded ==
    \E n \in Names : \E c \in Categories : \E l \in Levels :
        /\ Len(skills) < MaxSkills
        /\ skills' = Append(skills, Skill(NewId(skills), n, c, l))
        /\ UNCHANGED othersThanSkillList

\* A skill leaves the collection (a deleteSkill that succeeded).
SkillRemoved ==
    \E k \in 1..Len(skills) :
        /\ skills' = SelectSeq(skills, LAMBDA skill : skill.id # skills[k].id)
        /\ UNCHANGED othersThanSkillList

NextSkills == SkillAdded \/ SkillRemoved

SpecSkills == InitSkills /\ [][NextSkills]_vars

\* ------------------------------------------------------------ ApiClient
\* What the store actions are built on: ApiClient.request over the outcomes
\* of fetch. A parsed JSON body is read through the three envelope fields.
Methods == { "GET", "POST", "PUT", "DELETE" }

Statuses == { 200, 201, 404, 500 }

\* The `error` member of a body: null, a value without code and message (a
\* string, say), or a structured error object.
JsonErrors ==
    { [truthy |-> FALSE, code |-> None, message |-> None],
      [truthy |-> TRUE, code |-> None, message |-> None],
      [truthy |-> TRUE, code |-> Some("NOT_FOUND"), message |-> Some("Project not found")],
      [truthy |-> TRUE, code |-> Some("VALIDATION_ERROR"), message |-> Some("Invalid input data")] }

Json(k, s, d, e) == [kind |-> k, success |-> s, data |-> d, error |-> e]

\* A response body: not JSON at all, or the JSON values null, a primitive, or
\* an object with any of the members success, data and error.
Bodies ==
    { Json(k, None, None, None) : k \in { "unparseable", "null", "primitive" } }
    \cup { Json("object", s, d, e) :
             s \in { None, Some(TRUE), Some(FALSE) },
             d \in { None, Some("data") },
             e \in { None } \cup { Some(j) : j \in JsonErrors } }

FetchOutcomes ==
    { [fetch |-> "rejects", status |-> 0, body |-> Json("unparseable", None, None, None)] }
    \cup { [fetch |-> "resolves", status |-> st, body |-> b] : st \in Statuses, b \in Bodies }

\* Response.ok
ok(status) == status >= 200 /\ status <= 299

ErrorObject(c, m) == [truthy |-> TRUE, code |-> Some(c), message |-> Some(m)]

FailureResult(c, m) == Json("object", Some(FALSE), None, Some(ErrorObject(c, m)))

\* `HTTP ${response.status}: ${response.statusText}`
HttpMessage(status) ==
    CASE status = 200 -> "HTTP 200: OK"
      [] status = 201 -> "HTTP 201: Created"
      [] status = 404 -> "HTTP 404: Not Found"
      [] status = 500 -> "HTTP 500: Internal Server Error"

Thrown == [threw |-> TRUE, value |-> Json("null", None, None, None)]

Completed(v) == [threw |-> FALSE, value |-> v]

\* The body of the try block of request: fetch, response.json(), the check
\* of response.ok. `data.error` throws a TypeError when data is null.
requestTry(outcome) ==
    IF outcome.fetch = "rejects" THEN Thrown
    ELSE IF outcome.body.kind = "unparseable" THEN Thrown
    ELSE IF ~ok(outcome.status)
    THEN IF outcome.body.kind = "null" THEN Thrown
         ELSE Completed(Json("object", Some(FALSE), None,
                  IF outcome.body.error # None /\ outcome.body.error[1].truthy
                  THEN outcome.body.error
                  ELSE Some(ErrorObject("HTTP_ERROR", HttpMessage(outcome.status)))))
    ELSE Completed(outcome.body)

\* Variant of request without the catch block: what is thrown goes to the caller.
requestUncaught(outcome) ==
    LET tried == requestTry(outcome) IN
    IF tried.threw
    THEN [rejected |-> TRUE, value |-> tried.value]
    ELSE [rejected |-> FALSE, value |-> tried.value]

\* ApiClient.request: the promise its caller gets.
request(outcome) ==
    LET tried == requestTry(outcome) IN
    IF tried.threw
    THEN [rejected |-> FALSE,
          value |-> FailureResult("NETWORK_ERROR", "Failed to connect to server")]
    ELSE [rejected |-> FALSE, value |-> tried.value]

\* get, post, put and delete all return this.request(...).
InitApi ==
    /\ focus = "api"
    /\ projects = << >>
    /\ projectsLoading = IdleState
    /\ skills = << >>
    /\ skillsLoading = IdleState
    /\ profile = None
    /\ profileLoading = IdleState
    /\ contactLoading = IdleState
    /\ contactSuccess = FALSE
    /\ toasts = << >>
    /\ timers = [id \in ToastIds |-> 0]
    /\ logs = << >>
    /\ serverRows = FirstRows
    /\ nextId = 2
    /\ pending = {}
    /\ nCalls = 0
    /\ last = NoEvent
    /\ fetched \in { Some([method |-> m, outcome |-> o]) : m \in Methods, o \in FetchOutcomes }
    /\ returned = None
    /\ locale = "en"
    /\ ComponentsIdle

ApiCall ==
    /\ focus = "api"
    /\ returned = None
    /\ returned' = Some(request(fetched[1].outcome))
    /\ UNCHANGED << focus, storeVars, toasts, timers, logs, serverRows, nextId,
                    pending, nCalls, last, fetched, locale, componentVars >>

\* ApiClient.getProjects: the endpoint it builds from its filters. Strings
\* that are put together or encoded are sequences of characters.
ProjectsPath == << "/", "a", "p", "i", "/", "p", "r", "o", "j", "e", "c", "t", "s" >>

\* application/x-www-form-urlencoded serialisation of one character
Encoded(c) ==
    CASE c = " " -> << "+" >>
      [] c = "&" -> << "%", "2", "6" >>
      [] c = "=" -> << "%", "3", "D" >>
      [] c = "+" -> << "%", "2", "B" >>
      [] c = "?" -> << "%", "3", "F" >>
      [] OTHER -> << c >>

RECURSIVE urlencode(_)
urlencode(str) ==
    IF str = << >> THEN << >> ELSE Encoded(Head(str)) \o urlencode(Tail(str))

\* URLSearchParams.prototype.toString: name=value pairs joined by &
RECURSIVE URLSearchParams_toString(_)
URLSearchParams_toString(params) ==
    IF params = << >> THEN << >>
    ELSE urlencode(params[1].name) \o << "=" >> \o urlencode(params[1].value)
           \o (IF Len(params) > 1 THEN << "&" >> ELSE << >>)
           \o URLSearchParams_toString(Tail(params))

\* Boolean.prototype.toString
Boolean_toString(b) ==
    IF b THEN << "t", "r", "u", "e" >> ELSE << "f", "a", "l", "s", "e" >>

\* Variant of getProjectsEndpoint that drops a featured filter of false.
getProjectsEndpointTruthy(category, featured) ==
    LET params ==
            (IF category # None /\ category[1] # << >>
             THEN << [name |-> << "c", "a", "t", "e", "g", "o", "r", "y" >>,
                      value |-> category[1]] >>
             ELSE << >>)
            \o (IF featured # None /\ featured[1]
                THEN << [name |-> << "f", "e", "a", "t", "u", "r", "e", "d" >>,
                         value |-> Boolean_toString(featured[1])] >>
                ELSE << >>)
    IN IF URLSearchParams_toString(params) # << >>
       THEN ProjectsPath \o << "?" >> \o URLSearchParams_toString(params)
       ELSE ProjectsPath

\* The endpoint getProjects passes to this.get; an argument left out is
\* undefined, and `if (category)` is false for undefined and for ''.
getProjectsEndpoint(category, featured) ==
    LET params ==
            (IF category # None /\ category[1] # << >>
             THEN << [name |-> << "c", "a", "t", "e", "g", "o", "r", "y" >>,
                      value |-> category[1]] >>
             ELSE << >>)
            \o (IF featured # None
                THEN << [name |-> << "f", "e", "a", "t", "u", "r", "e", "d" >>,
                         value |-> Boolean_toString(featured[1])] >>
                ELSE << >>)
    IN IF URLSearchParams_toString(params) # << >>
       THEN ProjectsPath \o << "?" >> \o URLSearchParams_toString(params)
       ELSE ProjectsPath

\* The arguments a caller passes: nothing, '', 'Web', 'R&D'; nothing, true, false.
CategoryArgs ==
    { None, Some(<< >>), Some(<< "W", "e", "b" >>), Some(<< "R", "&", "D" >>) }

FeaturedArgs == { None, Some(TRUE), Some(FALSE) }

getProjects ==
    \E category \in CategoryArgs : \E featured \in FeaturedArgs :
        /\ focus = "api"
        /\ returned = None
        /\ fetched[1].method = "GET"
        /\ queried' = Some([category |-> category, featured |-> featured,
                            endpoint |-> getProjectsEndpoint(category, featured)])
        /\ returned' = Some(request(fetched[1].outcome))
        /\ UNCHANGED << focus, storeVars, toasts, timers, logs, serverRows, nextId,
                        pending, nCalls, last, fetched, locale, formData, errors,
                        touched, badge, logged >>

NextApi == ApiCall \/ getProjects

SpecApi == InitApi /\ [][NextApi]_vars

\* --------------------------------------------------------- ContactForm
\* Field values are strings of characters; a message is long enough for the
\* limit of 1000 characters to be met.
WhiteSpace == { " ", "\t" }

Repeat(c, n) == [k \in 1..n |-> c]

Padded(str) == << " " >> \o str \o << "\t" >>

\* String.prototype.trimStart and trimEnd
RECURSIVE trimStart(_)
trimStart(value) ==
    IF value # << >> /\ Head(value) \in WhiteSpace THEN trimStart(Tail(value))
    ELSE value

RECURSIVE trimEnd(_)
trimEnd(value) ==
    IF value # << >> /\ value[Len(value)] \in WhiteSpace
    THEN trimEnd(SubSeq(value, 1, Len(value) - 1))
    ELSE value

\* String.prototype.trim
trim(value) == trimEnd(trimStart(value))

\* /^[^\s@]+@[^\s@]+\.[^\s@]+$/.test(value)
emailRegex_test(value) ==
    \E i \in 2..Len(value) :
        /\ value[i] = "@"
        /\ \A k \in (1..Len(value)) \ {i} : value[k] \notin WhiteSpace \cup { "@" }
        /\ \E j \in (i + 2)..(Len(value) - 1) : value[j] = "."

\* Variant of validateField that measures the value as typed, without trim().
validateFieldUntrimmed(field, value) ==
    CASE field = "name" ->
           IF value = << >> THEN Some("Le nom est requis")
           ELSE IF Len(value) < 2
           THEN Some("Le nom doit contenir au moins 2 caractères")
           ELSE None
      [] field = "email" ->
           IF value = << >> THEN Some("L'email est requis")
           ELSE IF ~emailRegex_test(value) THEN Some("Format d'email invalide")
           ELSE None
      [] field = "subject" ->
           IF value = << >> THEN Some("Le sujet est requis")
           ELSE IF Len(value) < 5
           THEN Some("Le sujet doit contenir au moins 5 caractères")
           ELSE None
      [] field = "message" ->
           IF value = << >> THEN Some("Le message est requis")
           ELSE IF Len(value) < 10
           THEN Some("Le message doit contenir au moins 10 caractères")
           ELSE IF Len(value) > 1000
           THEN Some("Le message ne peut pas dépasser 1000 caractères")
           ELSE None

\* validateField: the message shown for the field, or null
validateField(field, value) ==
    LET trimmed == trim(value) IN
    CASE field = "name" ->
           IF trimmed = << >> THEN Some("Le nom est requis")
           ELSE IF Len(trimmed) < 2
           THEN Some("Le nom doit contenir au moins 2 caractères")
           ELSE None
      [] field = "email" ->
           IF trimmed = << >> THEN Some("L'email est requis")
           ELSE IF ~emailRegex_test(value) THEN Some("Format d'email invalide")
           ELSE None
      [] field = "subject" ->
           IF trimmed = << >> THEN Some("Le sujet est requis")
           ELSE IF Len(trimmed) < 5
           THEN Some("Le sujet doit contenir au moins 5 caractères")
           ELSE None
      [] field = "message" ->
           IF trimmed = << >> THEN Some("Le message est requis")
           ELSE IF Len(trimmed) < 10
           THEN Some("Le message doit contenir au moins 10 caractères")
           ELSE IF Len(trimmed) > 1000
           THEN Some("Le message ne peut pas dépasser 1000 caractères")
           ELSE None

\* What the user can type into a field.
FieldValues(field) ==
    CASE field = "name" ->
           { Padded(<< "A" >>), << "A", "B" >> }
      [] field = "email" ->
           { << "a", "@", "b", ".", "c" >>, Padded(<< "a", "@", "b", ".", "c" >>),
             << "a", "@", "b" >> }
      [] field = "subject" ->
           { Padded(Repeat("s", 4)), Repeat("s", 5) }
      [] field = "message" ->
           { Padded(Repeat("m", 9)), Repeat("m", 10), Padded(Repeat("m", 1000)),
             Repeat("m", 1001) }

\* The form is on the page unless the success panel replaces it; its inputs
\* are disabled while a message is being sent, and its button also while an
\* error is stored.
FormShown == focus = "form" /\ ~contactSuccess

InputsEnabled == FormShown /\ ~contactLoading.isLoading

SubmitEnabled == InputsEnabled /\ \A field \in Fields : errors[field] = None

othersThanForm ==
    << focus, projects, projectsLoading, skills, skillsLoading, profile,
       profileLoading, logs, serverRows, nextId, fetched, returned, locale,
       queried, badge, logged >>

InitForm ==
    /\ focus = "form"
    /\ projects = << >>
    /\ projectsLoading = IdleState
    /\ skills = << >>
    /\ skillsLoading = IdleState
    /\ profile = None
    /\ profileLoading = IdleState
    /\ contactLoading = IdleState
    /\ contactSuccess = FALSE
    /\ toasts = << >>
    /\ timers = [id \in ToastIds |-> 0]
    /\ logs = << >>
    /\ serverRows = FirstRows
    /\ nextId = 2
    /\ pending = {}
    /\ nCalls = 0
    /\ last = NoEvent
    /\ fetched = None
    /\ returned = None
    /\ locale = "en"
    /\ ComponentsIdle

\* errors after validateField has run for a field: the message is stored, or
\* the key deleted.
Validated(errs, field, value) == [errs EXCEPT ![field] = validateField(field, value)]

handleBlur ==
    \E field \in Fields :
        /\ InputsEnabled
        /\ touched' = touched \cup { field }
        /\ errors' = Validated(errors, field, formData[field])
        /\ UNCHANGED << formData, contactLoading, contactSuccess, toasts, timers,
                        pending, nCalls, last, othersThanForm >>

\* bind:value stores what was typed, then on:input runs handleInput.
handleInput ==
    \E field \in Fields : \E value \in FieldValues(field) :
        /\ InputsEnabled
        /\ formData' = [formData EXCEPT ![field] = value]
        /\ errors' = IF field \in touched THEN Validated(errors, field, value)
                     ELSE errors
        /\ UNCHANGED << touched, contactLoading, contactSuccess, toasts, timers,
                        pending, nCalls, last, othersThanForm >>

\* validateForm: the errors it stores; it returns true when there are none.
validateForm == [field \in Fields |-> validateField(field, formData[field])]

\* handleSubmit up to `await contactStore.sendMessage(formData)`
handleSubmit ==
    LET newErrors == validateForm IN
    /\ SubmitEnabled
    /\ touched' = Fields
    /\ errors' = newErrors
    /\ IF \A field \in Fields : newErrors[field] = None
       THEN /\ nCalls < MaxSubmits
            /\ nCalls' = nCalls + 1
            /\ contactLoading' = [contactLoading EXCEPT !.isLoading = TRUE, !.error = None]
            /\ contactSuccess' = FALSE
            /\ pending' = pending \cup { Request(nCalls + 1, "send", formData) }
            /\ last' = Event("call", "send", nCalls + 1, None)
       ELSE UNCHANGED << contactLoading, contactSuccess, pending, nCalls, last >>
    /\ UNCHANGED << formData, toasts, timers, othersThanForm >>

\* The server takes the message.
ServeContact ==
    \E r \in pending :
        /\ focus = "form"
        /\ ~r.served
        /\ pending' = ServedAs(r, None)
        /\ UNCHANGED << formData, errors, touched, contactLoading, contactSuccess,
                        toasts, timers, nCalls, last, othersThanForm >>

\* The rest of handleSubmit, once sendMessage has given its result.
handleSubmitThen ==
    \E r \in pending : \E response \in Responses(r) : \E id \in ToastIds :
        /\ focus = "form"
        /\ sendMessageThen(response, id)
        /\ pending' = pending \ {r}
        /\ last' = Event("settle", "send", r.seq, Some(response))
        /\ IF ~response.rejected /\ response.success
           THEN /\ formData' = BlankForm
                /\ touched' = {}
                /\ errors' = [field \in Fields |-> None]
           ELSE UNCHANGED << formData, touched, errors >>
        /\ UNCHANGED << nCalls, othersThanForm >>

\* The button of the success panel.
resetSuccess ==
    /\ focus = "form"
    /\ contactSuccess
    /\ contactSuccess' = FALSE
    /\ UNCHANGED << formData, errors, touched, contactLoading, toasts, timers,
                    pending, nCalls, last, othersThanForm >>

NextForm ==
    \/ handleBlur
    \/ handleInput
    \/ handleSubmit
    \/ ServeContact
    \/ handleSubmitThen
    \/ resetSuccess

SpecForm == InitForm /\ [][NextForm]_vars

\* ---------------------------------------------------------- SkillBadge
\* Array element `array[index]` of a JS array held as a sequence: undefined
\* outside 0..length-1.
At(array, index) ==
    IF index >= 0 /\ index < Len(array) THEN Some(array[index + 1]) ELSE None

\* `value || fallback` for strings: undefined and '' are falsy.
OrDefault(value, fallback) ==
    IF value # None /\ value[1] # "" THEN value[1] ELSE fallback

levels == << "Débutant", "Intermédiaire", "Confirmé", "Expert", "Maître" >>

\* Variant of getSkillLevelDisplay that clamps the level to the nearest label.
getSkillLevelDisplayClamped(level) ==
    IF level < 1 THEN levels[1]
    ELSE IF level > 5 THEN levels[5]
    ELSE levels[level]

\* `levels[level - 1] || 'Débutant'`
getSkillLevelDisplay(level) ==
    OrDefault(At(levels, level - 1), "Débutant")

colors ==
    << "bg-red-100 text-red-800 ring-red-600/20",
       "bg-yellow-100 text-yellow-800 ring-yellow-600/20",
       "bg-blue-100 text-blue-800 ring-blue-600/20",
       "bg-green-100 text-green-800 ring-green-600/20",
       "bg-purple-100 text-purple-800 ring-purple-600/20" >>

getSkillLevelColor(level) == OrDefault(At(colors, level - 1), colors[1])

getSizeClasses(size) ==
    CASE size = "sm" -> "px-2 py-1 text-xs"
      [] size = "lg" -> "px-4 py-3 text-base"
      [] OTHER -> "px-3 py-2 text-sm"

\* The props a badge is created with: skill.level, size, showLevel.
BadgeLevels == (0 - MaxBadgeLevel)..MaxBadgeLevel

Sizes == { "sm", "md", "lg" }

\* What the badge shows of the level: nothing before the animation timer has
\* fired, then the size classes and, with showLevel, the label and its colour.
Rendered(props) ==
    [sizeClasses |-> getSizeClasses(props.size),
     label |-> IF props.showLevel THEN Some(getSkillLevelDisplay(props.level))
               ELSE None,
     color |-> IF props.showLevel THEN Some(getSkillLevelColor(props.level))
               ELSE None]

othersThanBadge ==
    << focus, storeVars, toasts, timers, logs, serverRows, nextId, pending, nCalls,
       last, fetched, returned, locale, formData, errors, touched, queried, logged >>

InitBadge ==
    /\ focus = "badge"
    /\ projects = << >>
    /\ projectsLoading = IdleState
    /\ skills = << >>
    /\ skillsLoading = IdleState
    /\ profile = None
    /\ profileLoading = IdleState
    /\ contactLoading = IdleState
    /\ contactSuccess = FALSE
    /\ toasts = << >>
    /\ timers = [id \in ToastIds |-> 0]
    /\ logs = << >>
    /\ serverRows = FirstRows
    /\ nextId = 2
    /\ pending = {}
    /\ nCalls = 0
    /\ last = NoEvent
    /\ fetched = None
    /\ returned = None
    /\ locale = "en"
    /\ formData = BlankForm
    /\ errors = [field \in Fields |-> None]
    /\ touched = {}
    /\ queried = None
    /\ logged = << >>
    /\ badge \in { Some([props |-> [level |-> l, size |-> s, showLevel |-> b],
                         badgeVisible |-> FALSE, isHovered |-> FALSE,
                         shown |-> None]) :
                     l \in BadgeLevels, s \in Sizes, b \in BOOLEAN }

\* setTimeout(() => badgeVisible = true, 100)
badgeTimer ==
    /\ focus = "badge"
    /\ ~badge[1].badgeVisible
    /\ badge' = Some([badge[1] EXCEPT !.badgeVisible = TRUE,
                                      !.shown = Some(Rendered(badge[1].props))])
    /\ UNCHANGED othersThanBadge

mouseenter ==
    /\ focus = "badge"
    /\ badge[1].badgeVisible
    /\ ~badge[1].isHovered
    /\ badge' = Some([badge[1] EXCEPT !.isHovered = TRUE])
    /\ UNCHANGED othersThanBadge

mouseleave ==
    /\ focus = "badge"
    /\ badge[1].isHovered
    /\ badge' = Some([badge[1] EXCEPT !.isHovered = FALSE])
    /\ UNCHANGED othersThanBadge

NextBadge == badgeTimer \/ mouseenter \/ mouseleave

SpecBadge == InitBadge /\ [][NextBadge]_vars

\* --------------------------------------------------------- ErrorLogger
\* Array.prototype.slice(-n): the last n elements, or all of them
slice(array, n) ==
    IF Len(array) > n THEN SubSeq(array, Len(array) - n + 1, Len(array)) ELSE array

\* Variant of logWarning that keeps the first maxLogs entries.
logWarningKeepFirst(log, message) ==
    LET pushed == Append(log, LoggedError("warning", message))
    IN  IF Len(pushed) > maxLogs THEN SubSeq(pushed, 1, maxLogs) ELSE pushed

\* ErrorLogger.logWarning: the log after logging a warning
logWarning(log, message) ==
    LET pushed == Append(log, LoggedError("warning", message))
    IN  IF Len(pushed) > maxLogs THEN slice(pushed, maxLogs) ELSE pushed

\* ErrorLogger.logInfo: the log after logging an info message
logInfo(log, message) ==
    LET pushed == Append(log, LoggedError("info", message))
    IN  IF Len(pushed) > maxLogs THEN slice(pushed, maxLogs) ELSE pushed

\* The messages the logger is called with.
LogMessages == { "Network error", "Failed to connect to server" }

\* A logger that has been in use: what it holds after this many calls, the
\* levels taking turns.
UsedLog(n) ==
    [k \in 1..n |->
        LoggedError(CASE k % 3 = 0 -> "error" [] k % 3 = 1 -> "warning" [] OTHER -> "info",
                    "Network error")]

othersThanLogger ==
    << focus, storeVars, toasts, timers, serverRows, nextId, pending, last,
       fetched, returned, locale, formData, errors, touched, queried, badge >>

InitLogger ==
    /\ focus = "logger"
    /\ projects = << >>
    /\ projectsLoading = IdleState
    /\ skills = << >>
    /\ skillsLoading = IdleState
    /\ profile = None
    /\ profileLoading = IdleState
    /\ contactLoading = IdleState
    /\ contactSuccess = FALSE
    /\ toasts = << >>
    /\ timers = [id \in ToastIds |-> 0]
    /\ \E n \in { 0, maxLogs - 1 } : logs = UsedLog(n) /\ logged = UsedLog(n)
    /\ serverRows = FirstRows
    /\ nextId = 2
    /\ pending = {}
    /\ nCalls = 0
    /\ last = NoEvent
    /\ fetched = None
    /\ returned = None
    /\ locale = "en"
    /\ formData = BlankForm
    /\ errors = [field \in Fields |-> None]
    /\ touched = {}
    /\ queried = None
    /\ badge = None

logErrorCall ==
    \E message \in LogMessages :
        /\ focus = "logger"
        /\ nCalls < MaxLogCalls
        /\ nCalls' = nCalls + 1
        /\ logs' = logError(logs, message)
        /\ logged' = IF shouldIgnoreError(message) THEN logged
                     ELSE Append(logged, LoggedError("error", message))
        /\ UNCHANGED othersThanLogger

logWarningCall ==
    \E message \in LogMessages :
        /\ focus = "logger"
        /\ nCalls < MaxLogCalls
        /\ nCalls' = nCalls + 1
        /\ logs' = logWarning(logs, message)
        /\ logged' = Append(logged, LoggedError("warning", message))
        /\ UNCHANGED othersThanLogger

logInfoCall ==
    \E message \in LogMessages :
        /\ focus = "logger"
        /\ nCalls < MaxLogCalls
        /\ nCalls' = nCalls + 1
        /\ logs' = logInfo(logs, message)
        /\ logged' = Append(logged, LoggedError("info", message))
        /\ UNCHANGED othersThanLogger

clearLogs ==
    /\ focus = "logger"
    /\ nCalls < MaxLogCalls
    /\ nCalls' = nCalls + 1
    /\ logs' = << >>
    /\ logged' = << >>
    /\ UNCHANGED othersThanLogger

NextLogger == logErrorCall \/ logWarningCall \/ logInfoCall \/ clearLogs

SpecLogger == InitLogger /\ [][NextLogger]_vars

\* ============================================================ the claims
\* The driven store's entity collection and LoadingState.
Collection ==
    CASE focus = "projects" -> projects
      [] focus = "skills" -> skills
      [] focus = "profile" -> profile
      [] focus = "contact" -> << >>

Loading ==
    CASE focus = "projects" -> projectsLoading
      [] focus = "skills" -> skillsLoading
      [] focus = "profile" -> profileLoading
      [] focus = "contact" -> contactLoading

\* The collection a successful load response carries.
Carried(response) ==
    IF focus = "profile" THEN response.data ELSE response.data[1]

\* The continuation of a call of this kind has just run (no store event since).
Settled(o) == last.ev = "settle" /\ last.op = o

\* A load settles as a failure: success=false, or the call rejects.
Failure(response) == response.rejected \/ ~response.success

\* C1: when a load settles as a failure, the step that processes the response
\* leaves the entity collection as it was, and afterwards isLoading is false
\* and error is non-null (projects, skills and profile stores).
C1_FailedLoad ==
    [][ (last' # last /\ last'.ev = "settle" /\ last'.op = "load"
           /\ Failure(last'.response[1]))
        => /\ Collection' = Collection
           /\ ~Loading'.isLoading
           /\ Loading'.error # None ]_vars

\* A failed load has settled on a store that held rows, and holds them still.
C1_Witness ==
    /\ Settled("load")
    /\ Failure(last.response[1])
    /\ Collection = FirstRows
    /\ focus = "skills"
    /\ skillsLoading.error # None

\* C2: after a create settles successfully, the returned entity is the last
\* element of the collection and occurs in it exactly once.
Occurrences(rows, e) == Cardinality({ k \in 1..Len(rows) : rows[k] = e })

C2_CreatedOnce ==
    (focus # "profile" /\ Settled("create") /\ Ok(last.response[1]))
    => /\ Len(Collection) > 0
       /\ Collection[Len(Collection)] = last.response[1].data[1]
       /\ Occurrences(Collection, last.response[1].data[1]) = 1

\* C3: isLoading is true as long as a load call is awaiting its response, and
\* false once a load call has settled.
C3_LoadingWhileInFlight ==
    /\ (\E r \in pending : r.op = "load") => Loading.isLoading
    /\ (Settled("load") /\ pending = {}) => ~Loading.isLoading

\* C4: right after a load settles successfully the LoadingState is
\* {isLoading: false, error: null}.
C4_SuccessClearsError ==
    (Settled("load") /\ Ok(last.response[1])) => Loading = IdleState

\* C5: when the response of a load resolves after the response of a load that
\* was issued later (both successful), the collection is the data of the one
\* that resolved last: the stale response is applied, not discarded.
C5_LastResolvedWins ==
    (Settled("load") /\ Ok(last.response[1]) /\ last.applied # 0)
    => Collection = Carried(last.response[1])

\* The load issued first resolved last, with data the server no longer has.
C5_Witness ==
    /\ Settled("load")
    /\ Ok(last.response[1])
    /\ last.seq < last.applied
    /\ Collection = Carried(last.response[1])
    /\ Collection = FirstRows
    /\ serverRows # FirstRows

\* C6: right after a load settles successfully the collection is exactly the
\* collection the response carries.
C6_FullReplace ==
    (Settled("load") /\ Ok(last.response[1]))
    => Collection = Carried(last.response[1])

\* A successful load replaced a collection that held a row the response lacks.
C6_Witness ==
    /\ focus = "projects"
    /\ Settled("load")
    /\ Ok(last.response[1])
    /\ projects = << Row(1, 1) >>

\* A result of the failure shape: success is false and error has code and message.
IsFailure(value) ==
    /\ value.kind = "object"
    /\ value.success = Some(FALSE)
    /\ value.error # None
    /\ value.error[1].code # None
    /\ value.error[1].message # None

\* C7: an ApiClient call resolves and never rejects; when fetch rejects the
\* result is the NETWORK_ERROR failure, and when the body cannot be parsed
\* the result is a failure with a code and a message.
C7_NeverRejects ==
    returned # None =>
        LET outcome == fetched[1].outcome
            result == returned[1]
        IN /\ ~result.rejected
           /\ outcome.fetch = "rejects"
                 => result.value = FailureResult("NETWORK_ERROR", "Failed to connect to server")
           /\ (outcome.fetch = "resolves" /\ outcome.body.kind = "unparseable")
                 => IsFailure(result.value)

\* A call whose fetch rejected has returned the NETWORK_ERROR failure.
C7_Witness ==
    /\ returned # None
    /\ fetched[1].outcome.fetch = "rejects"
    /\ ~returned[1].rejected
    /\ returned[1].value.error[1].code = Some("NETWORK_ERROR")

\* C8: for a non-2xx response whose body cannot be parsed or has no error
\* member the result is a failure with code HTTP_ERROR; when the body has an
\* error object, the result carries that object's code and message unchanged.
C8_HttpError ==
    (returned # None /\ fetched[1].outcome.fetch = "resolves"
       /\ ~ok(fetched[1].outcome.status)) =>
        LET body == fetched[1].outcome.body
            value == returned[1].value
        IN /\ (body.kind = "unparseable" \/ (body.kind = "object" /\ body.error = None))
                 => (IsFailure(value) /\ value.error[1].code = Some("HTTP_ERROR"))
           /\ (body.kind = "object" /\ body.error # None /\ body.error[1].code # None)
                 => (IsFailure(value) /\ value.error = body.error)

\* C9: every result is either success=true, or success=false with an error
\* object that has a code and a message.
C9_TwoShapes ==
    returned # None =>
        \/ (returned[1].value.kind = "object" /\ returned[1].value.success = Some(TRUE))
        \/ IsFailure(returned[1].value)

\* C10: after a load resolves with success=false the error field is the
\* response's error object, or has code UNKNOWN_ERROR when the response has
\* none; after the call rejects it has code NETWORK_ERROR.
C10_LoadError ==
    Settled("load") =>
        LET response == last.response[1] IN
        /\ (~response.rejected /\ ~response.success /\ response.error # None)
              => Loading.error = response.error
        /\ (~response.rejected /\ ~response.success /\ response.error = None)
              => (Loading.error # None /\ Loading.error[1].code = "UNKNOWN_ERROR")
        /\ response.rejected
              => (Loading.error # None /\ Loading.error[1].code = "NETWORK_ERROR")

\* The profile store shows the server's SERVER_ERROR object after a failed load.
C10_Witness ==
    /\ focus = "profile"
    /\ Settled("load")
    /\ ~last.response[1].rejected
    /\ ~last.response[1].success
    /\ last.response[1].error = Some([code |-> "SERVER_ERROR",
                                      message |-> "Internal server error"])
    /\ profileLoading.error = last.response[1].error

\* An action call settles as a failure: the awaited call rejects, or resolves
\* with a response the action does not take for a success.
Failed(o, response) ==
    IF o \in { "delete", "send" }
    THEN response.rejected \/ ~response.success
    ELSE ~Ok(response)

\* This step is the continuation of a call of one of these kinds.
Settles(ops) == last' # last /\ last'.ev = "settle" /\ last'.op \in ops

\* This step appends exactly one toast, of this type, to the queue.
AppendsOne(type) ==
    /\ Len(toasts') = Len(toasts) + 1
    /\ SubSeq(toasts', 1, Len(toasts)) = toasts
    /\ toasts'[Len(toasts')].type = type

\* C11: in the Projects and Contact stores every call that settles as a
\* failure appends exactly one error toast, every create, update, delete and
\* sendMessage call that settles as a success appends exactly one success
\* toast, and a successful loadProjects leaves the queue as it is.
C11_ToastPerOutcome ==
    [][ (focus \in { "projects", "contact" }
           /\ Settles({ "load", "create", "update", "delete", "send" }))
        => IF Failed(last'.op, last'.response[1])
           THEN AppendsOne("error")
           ELSE IF last'.op = "load"
           THEN toasts' = toasts
           ELSE AppendsOne("success") ]_vars

\* A createProject succeeded and a later one failed: one toast each.
C11_Witness ==
    /\ focus = "projects"
    /\ Settled("create")
    /\ Failed("create", last.response[1])
    /\ Len(toasts) = 2
    /\ toasts[1].type = "success"
    /\ toasts[2].type = "error"

\* C12: in the Skills and Profile stores every call that settles as a
\* failure appends an error toast, and every createSkill, updateSkill and
\* deleteSkill call that settles as a success appends a success toast.
C12_SkillsProfileToasts ==
    [][ (focus \in { "skills", "profile" }
           /\ Settles({ "load", "create", "update", "delete" }))
        => /\ Failed(last'.op, last'.response[1]) => AppendsOne("error")
           /\ (focus = "skills" /\ last'.op # "load"
                 /\ ~Failed(last'.op, last'.response[1])) => AppendsOne("success") ]_vars

\* C13: a create, update or delete call that settles as a failure leaves the
\* entity collection and the LoadingState as they were and returns false;
\* of the state only the toast queue may change.
C13_FailedMutationFrame ==
    [][ (Settles({ "create", "update", "delete" })
           /\ Failed(last'.op, last'.response[1]))
        => /\ Collection' = Collection
           /\ Loading' = Loading
           /\ logs' = logs
           /\ last'.result = Some(FALSE) ]_vars

\* A deleteProject failed while the store showed a row and a load error.
C13_Witness ==
    /\ focus = "projects"
    /\ Settled("delete")
    /\ Failed("delete", last.response[1])
    /\ last.result = Some(FALSE)
    /\ projects = FirstRows
    /\ projectsLoading.error # None
    /\ toasts # << >>

\* C18: after sendMessage settles, it has returned true with isLoading false
\* and success true exactly when the response has success=true; otherwise it
\* has returned false with isLoading false, error non-null and success false.
C18_SendOutcome ==
    Settled("send") =>
        IF ~Failed("send", last.response[1])
        THEN /\ last.result = Some(TRUE)
             /\ ~contactLoading.isLoading
             /\ contactSuccess
        ELSE /\ last.result = Some(FALSE)
             /\ ~contactLoading.isLoading
             /\ contactLoading.error # None
             /\ ~contactSuccess

\* C19: a successful updateProject / updateSkill puts the returned entity in
\* the place of every entity with the given id, and leaves the length of the
\* collection and all other entities where they were; when no entity has the
\* id the collection is unchanged.
C19_UpdateInPlace ==
    [][ (focus \in { "projects", "skills" } /\ Settles({ "update" })
           /\ Ok(last'.response[1]))
        => LET r == CHOOSE q \in pending : q.seq = last'.seq
               entity == last'.response[1].data[1]
           IN /\ Len(Collection') = Len(Collection)
              /\ \A k \in 1..Len(Collection) :
                    Collection'[k] = IF Collection[k].id = r.arg
                                     THEN entity ELSE Collection[k]
              /\ r.arg \notin IdsOf(Collection) => Collection' = Collection ]_vars

\* An updateSkill has put the rewritten row in the place of the old one.
C19_Witness ==
    /\ focus = "skills"
    /\ Settled("update")
    /\ Ok(last.response[1])
    /\ last.response[1].data[1] = Row(1, 1)
    /\ skills = << Row(1, 1) >>

\* C14: the ids of the toasts in the queue are pairwise distinct, as they are
\* when add never returns an id it has returned before.
C14_UniqueIds ==
    \A i, j \in 1..Len(toasts) : i # j => toasts[i].id # toasts[j].id

\* The toasts of the queue other than those with this id, in queue order.
Others(queue, id) == SelectSeq(queue, LAMBDA toast : toast.id # id)

\* C15: dismiss(id) removes exactly one toast when a toast with that id is in
\* the queue and none otherwise, and the other toasts keep their order.
C15_DismissOne ==
    [][ (last' # last /\ last'.ev = "dismiss")
        => /\ Len(toasts') =
                 IF last'.id \in { toasts[k].id : k \in 1..Len(toasts) }
                 THEN Len(toasts) - 1 ELSE Len(toasts)
           /\ Others(toasts', last'.id) = Others(toasts, last'.id) ]_vars

\* C16: a toast stays in the queue until its own timer fires, it is
\* dismissed by id or the queue is cleared: a timer that fires takes no
\* toast but its own out of the queue, and a new toast goes to the end.
C16_OwnTimerOnly ==
    [][ /\ (last' # last /\ last'.ev = "timer") => Len(toasts') >= Len(toasts) - 1
        /\ (last' # last /\ last'.ev \in { "add" } \cup ToastTypes)
              => SubSeq(toasts', 1, Len(toasts)) = toasts ]_vars

\* C17: add gives the toast the caller's type, duration and dismissible flag
\* and the defaults info, 5000 (8000 through the error wrapper) and true only
\* for what the caller left out; a removal timer is armed exactly when the
\* toast's duration is greater than 0, and never for a supplied duration of 0.
C17_DefaultsOnlyWhenAbsent ==
    [][ (last' # last /\ last'.ev \in { "add" } \cup ToastTypes)
        => LET options == last'.options[1]
               toast == toasts'[Len(toasts')]
               armed == timers'[last'.id] = timers[last'.id] + 1
           IN /\ toast.type = IF last'.ev # "add" THEN last'.ev
                              ELSE IF options.type # None THEN options.type[1]
                              ELSE "info"
              /\ toast.duration = IF options.duration # None THEN options.duration[1]
                                  ELSE IF last'.ev = "error" THEN 8000
                                  ELSE 5000
              /\ toast.dismissible = IF options.dismissible # None
                                     THEN options.dismissible[1] ELSE TRUE
              /\ armed <=> toast.duration > 0
              /\ options.duration = Some(0) => ~armed ]_vars

\* A group is in order: each skill has a higher level than the next one, or
\* the same level and a name that this comparison puts first or equal.
InOrder(group, CompareNames(_, _)) ==
    \A k \in 1..(Len(group) - 1) :
        \/ group[k].level > group[k + 1].level
        \/ /\ group[k].level = group[k + 1].level
           /\ CompareNames(group[k].name, group[k + 1].name) <= 0

LengthRule(field, n) ==
    CASE field = "name" -> n >= 2
      [] field = "subject" -> n >= 5
      [] field = "message" -> n >= 10 /\ n <= 1000

\* sendMessage is called in this step.
SendIssued == last' # last /\ last'.ev = "call" /\ last'.op = "send"

\* C21: whenever the form has validated the name, the subject or the message,
\* it accepts the value (stores no error for it) exactly when the trimmed
\* length is at least 2, at least 5, and between 10 and 1000 inclusive,
\* respectively; and handleSubmit calls contactStore.sendMessage only with a
\* form whose name, subject and message satisfy these rules and whose email
\* has the shape local@domain.tld.
C21_FormValidation ==
    [][/\ \A field \in touched' \ { "email" } :
              (errors'[field] = None) <=> LengthRule(field, Len(trim(formData'[field])))
       /\ SendIssued =>
              /\ \A field \in Fields \ { "email" } :
                     LengthRule(field, Len(trim(formData[field])))
              /\ emailRegex_test(trim(formData.email))]_vars

\* A message of 1000 characters between white space has been sent.
C21_Witness ==
    /\ focus = "form"
    /\ last.ev = "call"
    /\ last.op = "send"
    /\ Len(formData.message) = 1002
    /\ Len(trim(formData.message)) = 1000
    /\ errors.message = None

\* C22: whenever the form has validated the email, it accepts the value
\* (stores no error for it) exactly when the trimmed value has the shape
\* local@domain.tld, white space before or after it notwithstanding.
C22_EmailTrimmed ==
    "email" \in touched =>
        ((errors.email = None) <=> emailRegex_test(trim(formData.email)))

\* ---------------------------------------------------------------- C23
\* C23: the label a badge shows for its level is Débutant, Intermédiaire,
\* Confirmé, Expert, Maître for the levels 1, 2, 3, 4, 5, and Débutant for
\* every level that is 0 or less or more than 5.
C23_LevelLabel ==
    (badge # None /\ badge[1].shown # None /\ badge[1].props.showLevel) =>
        LET level == badge[1].props.level IN
        badge[1].shown[1].label =
            Some(CASE level = 1 -> "Débutant"
                   [] level = 2 -> "Intermédiaire"
                   [] level = 3 -> "Confirmé"
                   [] level = 4 -> "Expert"
                   [] level = 5 -> "Maître"
                   [] level <= 0 \/ level > 5 -> "Débutant")

\* A badge of level 6 shows Débutant.
C23_Witness ==
    /\ badge # None
    /\ badge[1].shown # None
    /\ badge[1].props.level = 6
    /\ badge[1].shown[1].label = Some("Débutant")

\* ---------------------------------------------------------------- C24
\* How a server reads an endpoint: the query string is what follows the
\* first "?", its pairs are separated by "&", name and value by "=", and the
\* escapes are undone.
QueryOf(endpoint) ==
    IF \E k \in 1..Len(endpoint) : endpoint[k] = "?"
    THEN Some(SubSeq(endpoint,
                     1 + CHOOSE k \in 1..Len(endpoint) :
                             /\ endpoint[k] = "?"
                             /\ \A j \in 1..(k - 1) : endpoint[j] # "?",
                     Len(endpoint)))
    ELSE None

RECURSIVE SplitOn(_, _)
SplitOn(str, sep) ==
    IF \E k \in 1..Len(str) : str[k] = sep
    THEN LET at == CHOOSE k \in 1..Len(str) :
                       str[k] = sep /\ \A j \in 1..(k - 1) : str[j] # sep
         IN << SubSeq(str, 1, at - 1) >> \o SplitOn(SubSeq(str, at + 1, Len(str)), sep)
    ELSE << str >>

RECURSIVE urldecode(_)
urldecode(str) ==
    IF str = << >> THEN << >>
    ELSE IF Head(str) = "+" THEN << " " >> \o urldecode(Tail(str))
    ELSE IF Head(str) = "%" /\ Len(str) >= 3
    THEN << CASE SubSeq(str, 2, 3) = << "2", "6" >> -> "&"
              [] SubSeq(str, 2, 3) = << "3", "D" >> -> "="
              [] SubSeq(str, 2, 3) = << "2", "B" >> -> "+"
              [] SubSeq(str, 2, 3) = << "3", "F" >> -> "?" >>
           \o urldecode(SubSeq(str, 4, Len(str)))
    ELSE << Head(str) >> \o urldecode(Tail(str))

\* The values the query string of the endpoint gives for a name.
ParamValues(endpoint, name) ==
    IF QueryOf(endpoint) = None THEN {}
    ELSE LET pairs == SplitOn(QueryOf(endpoint)[1], "&") IN
         { urldecode(SplitOn(pairs[k], "=")[2]) :
             k \in { i \in 1..Len(pairs) :
                       /\ Len(SplitOn(pairs[i], "=")) = 2
                       /\ urldecode(SplitOn(pairs[i], "=")[1]) = name } }

CategoryName == << "c", "a", "t", "e", "g", "o", "r", "y" >>

FeaturedName == << "f", "e", "a", "t", "u", "r", "e", "d" >>

\* C24 as stated: the endpoint getProjects asks for carries the category
\* exactly when the caller gave one, and featured exactly when the caller
\* gave it (true or false), each with the value given; without filters the
\* endpoint has no query string.
C24_FiltersAsSupplied ==
    queried # None =>
        LET call == queried[1] IN
        /\ ParamValues(call.endpoint, CategoryName) =
               (IF call.category # None THEN { call.category[1] } ELSE {})
        /\ ParamValues(call.endpoint, FeaturedName) =
               (IF call.featured # None
                THEN { Boolean_toString(call.featured[1]) } ELSE {})
        /\ (call.category = None /\ call.featured = None) =>
               QueryOf(call.endpoint) = None

\* C24 amended: the category is carried exactly when the caller gave a
\* category other than the empty string; featured exactly when the caller
\* gave it (true or false); the endpoint has no query string exactly when
\* neither is carried.
C24_FiltersWhenNonEmpty ==
    queried # None =>
        LET call == queried[1] IN
        /\ ParamValues(call.endpoint, CategoryName) =
               (IF call.category # None /\ call.category[1] # << >>
                THEN { call.category[1] } ELSE {})
        /\ ParamValues(call.endpoint, FeaturedName) =
               (IF call.featured # None
                THEN { Boolean_toString(call.featured[1]) } ELSE {})
        /\ (QueryOf(call.endpoint) = None) <=>
               /\ call.category \in { None, Some(<< >>) }
               /\ call.featured = None

\* getProjects('R&D', false) has asked for both filters.
C24_Witness ==
    /\ queried # None
    /\ queried[1].category = Some(<< "R", "&", "D" >>)
    /\ queried[1].featured = Some(FALSE)
    /\ ParamValues(queried[1].endpoint, CategoryName) = { << "R", "&", "D" >> }
    /\ ParamValues(queried[1].endpoint, FeaturedName) = { << "f", "a", "l", "s", "e" >> }

\* ---------------------------------------------------------------- C25
\* C25: a clearError step leaves error null and leaves the entity collection
\* and the isLoading flag of the store as they were, whatever the state it
\* is called in, a load in flight included.
C25_ClearErrorFrame ==
    [][(last' # last /\ last'.ev = "clearError")
          => /\ Loading'.error = None
             /\ Loading'.isLoading = Loading.isLoading
             /\ Collection' = Collection]_vars

\* clearError has run while a load is in flight and isLoading is true.
C25_Witness ==
    /\ last.ev = "clearError"
    /\ Loading.isLoading
    /\ Loading.error = None
    /\ \E r \in pending : r.op = "load"

\* ---------------------------------------------------------------- C26
\* C26: the logger never holds more than 100 entries, and once more than 100
\* entries have been logged since the last clear it holds the 100 logged
\* last, in the order they were logged.
C26_LastHundred ==
    /\ Len(logs) <= 100
    /\ Len(logged) > 100 => logs = SubSeq(logged, Len(logged) - 99, Len(logged))

\* 102 entries have been logged since the last clear, of all three levels.
C26_Witness ==
    /\ focus = "logger"
    /\ Len(logged) = 102
    /\ Len(logs) = 100
    /\ { logged[k].level : k \in 100..102 } = { "error", "warning", "info" }

\* ---------------------------------------------------------------- C27
\* C27: the Contact store is never in a state with success true and a
\* non-null error, overlapping sendMessage calls included.
C27_SuccessExcludesError ==
    ~(contactSuccess /\ contactLoading.error # None)

\* ---------------------------------------------------------------- C28
\* The state reset() leaves: { isLoading: false, error: null, success: false }.
ContactIdle == contactLoading = IdleState /\ ~contactSuccess

\* C28 as stated: from the state reset() has left, every step other than the
\* issue of a sendMessage call leaves the Contact store idle, the arrival of
\* the response to a call that was in flight included.
C28_ResetHoldsUntilSend ==
    [][(focus = "contact" /\ last.ev = "reset" /\ ~SendIssued) => ContactIdle']_vars

\* C28 amended: a reset() step leaves the Contact store idle, and from an idle
\* state every step other than the issue of a sendMessage call and the
\* continuation of a sendMessage call in flight leaves it idle.
C28_ResetHoldsUntilSendOrResponse ==
    [][focus = "contact" =>
          /\ (last' # last /\ last'.ev = "reset") => ContactIdle'
          /\ (ContactIdle /\ ~SendIssued /\ ~Settles({ "send" })) => ContactIdle']_vars

\* reset() has run with a sendMessage call in flight.
C28_Witness ==
    /\ focus = "contact"
    /\ last.ev = "reset"
    /\ ContactIdle
    /\ \E r \in pending : r.op = "send"

\* ---------------------------------------------------------------- C29
\* C29: in the stores that load (projects, skills, profile), whenever no load
\* call is in flight isLoading is false, whatever calls of load, create,
\* update, delete and clearError have overlapped before; so isLoading cannot
\* stay true once the responses of the load calls have arrived.
C29_LoadingNotStuck ==
    (focus \in { "projects", "skills", "profile" }
       /\ ~\E r \in pending : r.op = "load")
        => ~Loading.isLoading

\* Two overlapping load calls have both settled, the one issued first last.
C29_Witness ==
    /\ focus \in { "projects", "skills", "profile" }
    /\ nCalls = 2
    /\ pending = {}
    /\ Settled("load")
    /\ last.seq = 1
    /\ ~Loading.isLoading

\* ---------------------------------------------------------------- C30
\* C30: the continuation of a loadProjects call that settles as a failure
\* appends exactly one entry, of level error, to the error logger, whichever
\* error the ApiClient returned.
C30_FailedLoadLogged ==
    [][(focus = "projects" /\ Settles({ "load" }) /\ Failed("load", last'.response[1]))
          => /\ Len(logs') = Len(logs) + 1
             /\ SubSeq(logs', 1, Len(logs)) = logs
             /\ logs'[Len(logs')].level = "error"]_vars

====
